---- MODULE Spec2Model ----
(***************************************************************************)
(* Model of src/hw4.py: the operation interpreter execute_operations and   *)
(* the report/filter functions it dispatches to.                           *)
(*                                                                         *)
(* Text.  A Python str is modelled as a sequence of chunks (TLA+ strings   *)
(* cannot be taken apart).  The separators ":" and ".", and each           *)
(* whitespace character, are chunks of their own; every other chunk is a   *)
(* maximal run of characters that the program never splits, except that    *)
(* the prefixes "population" and "percent" tested by str.startswith are    *)
(* chunks of their own ("population-total" is <<"population", "-total">>). *)
(* The chunking is canonical: two different chunk sequences never spell    *)
(* the same text, so ==, strip, split, join and startswith on chunk        *)
(* sequences agree with Python's on the text.                              *)
(*                                                                         *)
(* Exceptions.  A function that can raise returns a record whose field exc *)
(* is "none" or the name of the exception class; ret/val is the returned   *)
(* value, out the lines printed before returning or raising.               *)
(*                                                                         *)
(* Numbers.  Field values and thresholds are integers; a sub-population    *)
(* sum(pop * (v / 100)) is kept exactly, in hundredths.                    *)
(*                                                                         *)
(* The source is valid Python from version 3.12 on (line 69 has a          *)
(* backslash inside an f-string expression); the model describes the       *)
(* program as that interpreter runs it.                                    *)
(***************************************************************************)
EXTENDS Integers, Sequences, FiniteSets, TLC

VARIABLES
    fs,          \* the file system at operations_file: [exists, lines]
    status,      \* "open" | "loop" | "exit 0" | "exit 1"
    uncaught,    \* "" or the class of the exception that ended the process
    operations,  \* file.readlines()
    idx,         \* number of lines the for loop has completed (next line is idx + 1)
    data,        \* the current dataset: a sequence of entries (by identity)
    out,         \* standard output: the sequence of printed lines
    hist,        \* history: hist[i] is the dataset line i started with
    mark,        \* history: mark[i] is Len(out) when line i started
    trace        \* history: trace[i] is the stripped line i, its parts and the
                 \* branch the loop took for it

vars == <<fs, status, uncaught, operations, idx, data, out, hist, mark, trace>>

----------------------------------------------------------------------------
(* Bounds of the model *)

MaxScript == 2
MaxData == 2

----------------------------------------------------------------------------
(* str methods on chunk sequences *)

Whitespace == {" ", "\t", "\n"}

RECURSIVE lstrip(_)
lstrip(s) ==
    IF s # <<>> /\ Head(s) \in Whitespace THEN lstrip(Tail(s)) ELSE s

RECURSIVE rstrip(_)
rstrip(s) ==
    IF s # <<>> /\ s[Len(s)] \in Whitespace
    THEN rstrip(SubSeq(s, 1, Len(s) - 1))
    ELSE s

strip(s) == rstrip(lstrip(s))

(* s.split(sep): the pieces between the occurrences of sep, scanning from *)
(* the left; always at least one piece.                                   *)
RECURSIVE split(_, _)
split(s, sep) ==
    IF s = <<>> THEN << <<>> >>
    ELSE LET rest == split(Tail(s), sep)
         IN  IF Head(s) = sep
             THEN << <<>> >> \o rest
             ELSE << <<Head(s)>> \o rest[1] >> \o Tail(rest)

RECURSIVE join(_, _)
join(parts, sep) ==
    IF parts = <<>> THEN <<>>
    ELSE IF Len(parts) = 1 THEN parts[1]
    ELSE parts[1] \o <<sep>> \o join(Tail(parts), sep)

startswith(s, prefix) ==
    Len(s) >= Len(prefix) /\ SubSeq(s, 1, Len(prefix)) = prefix

(* float(s): surrounding whitespace is ignored; the numerals of the model. *)
FloatValue == ("20" :> 20) @@ ("50" :> 50) @@ ("80" :> 80)

float(s) ==
    LET t == strip(s)
    IN  IF Len(t) = 1 /\ t[1] \in DOMAIN FloatValue
        THEN [exc |-> "none", val |-> FloatValue[t[1]]]
        ELSE [exc |-> "ValueError", val |-> 0]

----------------------------------------------------------------------------
(* The dataset provider (build_data.get_data, external): CountyDemographics *)
(* objects.  A dict is a function from keys (text) to numbers.              *)

EmptyDict == <<>>

Counties ==
    [ Alpha |->
        [ county |-> "Alpha County", state |-> <<"CA">>,
          population |-> (<<"2014 Population">> :> 100),
          age |-> (<<"< 5">> :> 6) @@ (<<"< 18">> :> 20) @@ (<<"> 65">> :> 10),
          education |-> (<<"High School or Higher">> :> 80)
                        @@ (<<"Bachelor's Degree or Higher">> :> 30),
          ethnicities |-> (<<"Asian Alone">> :> 5) @@ (<<"White Alone">> :> 60),
          income |-> (<<"Median Household Income">> :> 50000)
                     @@ (<<"Per Capita Income">> :> 20000)
                     @@ (<<"Persons Below Poverty Level">> :> 15) ],
      Beta |->
        [ county |-> "Beta County", state |-> <<"TX">>,
          population |-> EmptyDict,
          age |-> (<<"< 5">> :> 7),
          education |-> (<<"High School or Higher">> :> 50),
          ethnicities |-> EmptyDict,
          income |-> (<<"Per Capita Income">> :> 18000) ],
      Gamma |->
        [ county |-> "Gamma County", state |-> <<"CA">>,
          population |-> (<<"2014 Population">> :> 40),
          age |-> (<<"< 5">> :> 5) @@ (<<"< 18">> :> 25) @@ (<<"> 65">> :> 12),
          education |-> (<<"High School or Higher">> :> 20)
                        @@ (<<"Bachelor's Degree or Higher">> :> 10),
          ethnicities |-> (<<"Asian Alone">> :> 2) @@ (<<"White Alone">> :> 70),
          income |-> (<<"Median Household Income">> :> 30000)
                     @@ (<<"Per Capita Income">> :> 12000)
                     @@ (<<"Persons Below Poverty Level">> :> 25) ] ]

CountyIds == {"Alpha", "Beta", "Gamma"}

entry(e) == Counties[e]

(* Ordered sequences of distinct entries, at most MaxData long. *)
Datasets ==
    UNION { { s \in [1..n -> CountyIds] : \A i, j \in 1..n : i # j => s[i] # s[j] }
            : n \in 0..MaxData }

(* dict.get(key, default) and dict[key] *)
get(d, key, default) == IF key \in DOMAIN d THEN d[key] ELSE default

getitem(d, key) ==
    IF key \in DOMAIN d
    THEN [exc |-> "none", msg |-> <<>>, val |-> d[key]]
    ELSE [exc |-> "KeyError", msg |-> key, val |-> 0]

(* sum() of a sequence of numbers *)
RECURSIVE sum(_)
sum(s) == IF s = <<>> THEN 0 ELSE Head(s) + sum(Tail(s))

Min(S) == CHOOSE m \in S : \A n \in S : m <= n

----------------------------------------------------------------------------
(* get_field_value, lines 153-169 *)

get_field_value(e, field) ==
    LET parts == split(field, ".")
        prefix == parts[1]
        key == join(Tail(parts), ".")
    IN  IF prefix = <<"Education">> THEN getitem(e.education, key)
        ELSE IF prefix = <<"Ethnicities">> THEN getitem(e.ethnicities, key)
        ELSE IF prefix = <<"Income">> THEN getitem(e.income, key)
        ELSE IF prefix = <<"Population">> THEN getitem(e.population, key)
        ELSE [exc |-> "ValueError",
              msg |-> <<"Field '">> \o field \o <<"' not found in entry.">>,
              val |-> 0]

(* The first exception raised while a comprehension or generator evaluates *)
(* get_field_value(entry, field) for the entries of data in order; exc is  *)
(* "none" when every entry resolves.                                       *)
first_raise(d, field) ==
    LET bad == { i \in 1..Len(d) : get_field_value(entry(d[i]), field).exc # "none" }
    IN  IF bad = {}
        THEN [exc |-> "none", msg |-> <<>>]
        ELSE LET r == get_field_value(entry(d[Min(bad)]), field)
             IN  [exc |-> r.exc, msg |-> r.msg]

----------------------------------------------------------------------------
(* Printed lines.  A line is a record: fmt is the f-string of the print    *)
(* call, the other fields are the values substituted into it.              *)

(* repr(d.get(key, 'N/A')): a number, or the text of the default *)
repr_get(d, key) ==
    IF key \in DOMAIN d THEN [num |-> d[key]] ELSE [str |-> "'N/A'"]

display_entry(e) ==
    << [fmt |-> "{entry.county}, {entry.state}", county |-> e.county, state |-> e.state],
       [fmt |-> "        Population: {}",
        arg |-> repr_get(e.population, <<"2014 Population">>)],
       [fmt |-> "        Age:"],
       [fmt |-> "               < 5: {}%", arg |-> repr_get(e.age, <<"< 5">>)],
       [fmt |-> "               < 18: {}%", arg |-> repr_get(e.age, <<"< 18">>)],
       [fmt |-> "               > 65: {}%", arg |-> repr_get(e.age, <<"> 65">>)],
       [fmt |-> "        Education"],
       [fmt |-> "                >= High School: {}%",
        arg |-> repr_get(e.education, <<"High School or Higher">>)],
       [fmt |-> "                >= Bachelor's: {}%",
        arg |-> repr_get(e.education, <<"Bachelor's Degree or Higher">>)],
       [fmt |-> "        Ethnicity Percentages"],
       [fmt |-> "                American Indian and Alaska Native: {}%",
        arg |-> repr_get(e.ethnicities, <<"American Indian and Alaska Native Alone">>)],
       [fmt |-> "                Asian Alone: {}%",
        arg |-> repr_get(e.ethnicities, <<"Asian Alone">>)],
       [fmt |-> "                Black Alone: {}%",
        arg |-> repr_get(e.ethnicities, <<"Black Alone">>)],
       [fmt |-> "                Hispanic or Latino: {}%",
        arg |-> repr_get(e.ethnicities, <<"Hispanic or Latino">>)],
       [fmt |-> "                Native Hawaiian and Other Pacific Islander Alone: {}%",
        arg |-> repr_get(e.ethnicities,
                         <<"Native Hawaiian and Other Pacific Islander Alone">>)],
       [fmt |-> "                Two or More Races: {}%",
        arg |-> repr_get(e.ethnicities, <<"Two or More Races">>)],
       [fmt |-> "                White Alone: {}%",
        arg |-> repr_get(e.ethnicities, <<"White Alone">>)],
       [fmt |-> "                White Alone, not Hispanic or Latino: {}%",
        arg |-> repr_get(e.ethnicities, <<"White Alone, not Hispanic or Latino">>)],
       [fmt |-> "        Income"],
       [fmt |-> "                Median Household: {}",
        arg |-> repr_get(e.income, <<"Median Household Income">>)],
       [fmt |-> "                Per Capita: {}",
        arg |-> repr_get(e.income, <<"Per Capita Income">>)],
       [fmt |-> "                Below Poverty Level: {}%",
        arg |-> repr_get(e.income, <<"Persons Below Poverty Level">>)],
       [fmt |-> ""] >>

RECURSIVE display(_)
display(d) ==
    IF d = <<>> THEN <<>> ELSE display_entry(entry(Head(d))) \o display(Tail(d))

FilterStateFmt == "Filter: state == {state} ({len(filtered)} entries)"
FilterGtFmt == "Filter: {field} gt {value} ({len(filtered)} entries)"
FilterLtFmt == "Filter: {field} lt {value} ({len(filtered)} entries)"
PopulationTotalFmt == "2014 population: {total_population}"
PopulationFieldFmt == "2014 {field} population: {sub_population_str}"
PercentFmt == "2014 {field} percentage: {repr(percentage)}"
PercentZeroFmt == "2014 {field} percentage: 0.000000"
ErrorFmt == "Error: {e}"
MalformedFmt == "Error: Malformed line {idx + 1}: {line}"
NotFoundFmt == "Error: Operations file '{operations_file}' not found."

IsErrorLine(l) == l.fmt \in {ErrorFmt, MalformedFmt, NotFoundFmt}

----------------------------------------------------------------------------
(* The filters, lines 92-110.  The comprehension runs before the print, so *)
(* an exception leaves nothing printed.                                    *)

filter_state(d, state) ==
    LET filtered == SelectSeq(d, LAMBDA e : entry(e).state = state)
    IN  [exc |-> "none", msg |-> <<>>, ret |-> filtered,
         out |-> << [fmt |-> FilterStateFmt, state |-> state,
                     count |-> Len(filtered)] >>]

(* Mutant: the comparison of filter_gt made non-strict *)
filter_gt_ge(d, field, value) ==
    LET r == first_raise(d, field)
        filtered == SelectSeq(d, LAMBDA e :
                        get_field_value(entry(e), field).val >= value)
    IN  IF r.exc # "none"
        THEN [exc |-> r.exc, msg |-> r.msg, ret |-> <<>>, out |-> <<>>]
        ELSE [exc |-> "none", msg |-> <<>>, ret |-> filtered,
              out |-> << [fmt |-> FilterGtFmt, field |-> field, value |-> value,
                          count |-> Len(filtered)] >>]

filter_gt(d, field, value) ==
    LET r == first_raise(d, field)
        filtered == SelectSeq(d, LAMBDA e :
                        get_field_value(entry(e), field).val > value)
    IN  IF r.exc # "none"
        THEN [exc |-> r.exc, msg |-> r.msg, ret |-> <<>>, out |-> <<>>]
        ELSE [exc |-> "none", msg |-> <<>>, ret |-> filtered,
              out |-> << [fmt |-> FilterGtFmt, field |-> field, value |-> value,
                          count |-> Len(filtered)] >>]

(* Mutant: the comparison of filter_lt made non-strict *)
filter_lt_le(d, field, value) ==
    LET r == first_raise(d, field)
        filtered == SelectSeq(d, LAMBDA e :
                        get_field_value(entry(e), field).val <= value)
    IN  IF r.exc # "none"
        THEN [exc |-> r.exc, msg |-> r.msg, ret |-> <<>>, out |-> <<>>]
        ELSE [exc |-> "none", msg |-> <<>>, ret |-> filtered,
              out |-> << [fmt |-> FilterLtFmt, field |-> field, value |-> value,
                          count |-> Len(filtered)] >>]

filter_lt(d, field, value) ==
    LET r == first_raise(d, field)
        filtered == SelectSeq(d, LAMBDA e :
                        get_field_value(entry(e), field).val < value)
    IN  IF r.exc # "none"
        THEN [exc |-> r.exc, msg |-> r.msg, ret |-> <<>>, out |-> <<>>]
        ELSE [exc |-> "none", msg |-> <<>>, ret |-> filtered,
              out |-> << [fmt |-> FilterLtFmt, field |-> field, value |-> value,
                          count |-> Len(filtered)] >>]

----------------------------------------------------------------------------
(* The statistics, lines 113-150 *)

(* sum(entry.population.get("2014 Population", 0) for entry in data) *)
total_population(d) ==
    sum([i \in 1..Len(d) |-> get(entry(d[i]).population, <<"2014 Population">>, 0)])

(* sum(pop * (get_field_value(entry, field) / 100) for entry in data), in  *)
(* hundredths; evaluated only when every entry resolves.                   *)
sub_population(d, field) ==
    sum([i \in 1..Len(d) |->
            get(entry(d[i]).population, <<"2014 Population">>, 0)
            * get_field_value(entry(d[i]), field).val])

(* f"{x:.15f}".rstrip('0').rstrip('.') of x = h / 100: the integer part    *)
(* and the fractional digits left after the trailing zeros (and then a     *)
(* trailing point) are stripped.                                           *)
format_stripped(h) ==
    LET d1 == (h % 100) \div 10
        d2 == h % 10
    IN  [int |-> h \div 100,
         frac |-> IF d2 # 0 THEN <<d1, d2>>
                  ELSE IF d1 # 0 THEN <<d1>>
                  ELSE <<>>]

population_total(d) ==
    [exc |-> "none", msg |-> <<>>,
     out |-> << [fmt |-> PopulationTotalFmt, total |-> total_population(d)] >>]

(* Mutant: the result line's label is printed before the sum is computed, *)
(* so a failing field leaves partial output before the error message.     *)
population_field_partial(d, field) ==
    LET r == first_raise(d, field)
        label == [fmt |-> "2014 {field} population: ", field |-> field]
    IN  IF r.exc = "none"
        THEN [exc |-> "none", msg |-> <<>>,
              out |-> << [fmt |-> PopulationFieldFmt, field |-> field,
                          value |-> format_stripped(sub_population(d, field))] >>]
        ELSE IF r.exc = "ValueError"
        THEN [exc |-> "none", msg |-> <<>>,
              out |-> << label, [fmt |-> ErrorFmt, e |-> r.msg] >>]
        ELSE [exc |-> r.exc, msg |-> r.msg, out |-> << label >>]

population_field(d, field) ==
    LET r == first_raise(d, field)
    IN  IF r.exc = "none"
        THEN [exc |-> "none", msg |-> <<>>,
              out |-> << [fmt |-> PopulationFieldFmt, field |-> field,
                          value |-> format_stripped(sub_population(d, field))] >>]
        ELSE IF r.exc = "ValueError"
        THEN [exc |-> "none", msg |-> <<>>,
              out |-> << [fmt |-> ErrorFmt, e |-> r.msg] >>]
        ELSE [exc |-> r.exc, msg |-> r.msg, out |-> <<>>]

(* Mutant: the guard total_population > 0 written >= 0, so that a zero     *)
(* total divides by zero.                                                  *)
percent_field_ge(d, field) ==
    LET r == first_raise(d, field)
    IN  IF r.exc = "none"
        THEN IF total_population(d) > 0
             THEN [exc |-> "none", msg |-> <<>>,
                   out |-> << [fmt |-> PercentFmt, field |-> field,
                               num |-> sub_population(d, field),
                               den |-> total_population(d)] >>]
             ELSE [exc |-> "ZeroDivisionError", msg |-> <<"division by zero">>,
                   out |-> <<>>]
        ELSE IF r.exc = "ValueError"
        THEN [exc |-> "none", msg |-> <<>>,
              out |-> << [fmt |-> ErrorFmt, e |-> r.msg] >>]
        ELSE [exc |-> r.exc, msg |-> r.msg, out |-> <<>>]

(* The percentage (sub_population / total_population) * 100 is the ratio   *)
(* of the sub-population in hundredths to the total: [num, den].           *)
percent_field(d, field) ==
    LET r == first_raise(d, field)
    IN  IF r.exc = "none"
        THEN IF total_population(d) > 0
             THEN [exc |-> "none", msg |-> <<>>,
                   out |-> << [fmt |-> PercentFmt, field |-> field,
                               num |-> sub_population(d, field),
                               den |-> total_population(d)] >>]
             ELSE [exc |-> "none", msg |-> <<>>,
                   out |-> << [fmt |-> PercentZeroFmt, field |-> field] >>]
        ELSE IF r.exc = "ValueError"
        THEN [exc |-> "none", msg |-> <<>>,
              out |-> << [fmt |-> ErrorFmt, e |-> r.msg] >>]
        ELSE [exc |-> r.exc, msg |-> r.msg, out |-> <<>>]

----------------------------------------------------------------------------
(* The operations files of the model: every line ends with its newline.   *)

HS == <<"Education", ".", "High School or Higher">>
BA == <<"Education", ".", "Bachelor's Degree or Higher">>
Bogus == <<"Bogus", ".", "High School or Higher">>

Lines ==
    { <<"\n">>,
      <<"display", "\n">>,
      <<"filter-state", ":", "CA", "\n">>,
      <<"filter-state", "\n">>,
      <<"filter-gt", ":">> \o HS \o <<":", "50", "\n">>,
      <<"filter-lt", ":">> \o HS \o <<":", "50", "\n">>,
      <<"filter-gt", ":">> \o BA \o <<":", "20", "\n">>,
      <<"filter-lt", ":">> \o Bogus \o <<":", "50", "\n">>,
      <<"filter-gt", ":">> \o HS \o <<":", "abc", "\n">>,
      <<" ", "bogus", "\n">>,
      <<"population", "-total", "\n">>,
      <<"population", ":">> \o HS \o <<"\n">>,
      <<"population", ":">> \o Bogus \o <<"\n">>,
      <<"percent", "\n">>,
      <<"percent", ":">> \o HS \o <<"\n">>,
      <<"percent", ":">> \o Bogus \o <<"\n">>,
      <<"percent", ":">> \o BA \o <<"\n">> }

Scripts == UNION { [1..n -> Lines] : n \in 0..MaxScript }

----------------------------------------------------------------------------
(* execute_operations, lines 5-49 *)

Init ==
    /\ fs \in {[exists |-> FALSE, lines |-> <<>>]}
              \cup {[exists |-> TRUE, lines |-> s] : s \in Scripts}
    /\ data \in Datasets
    /\ status = "open"
    /\ uncaught = ""
    /\ operations = <<>>
    /\ idx = 0
    /\ out = <<>>
    /\ hist = <<>>
    /\ mark = <<>>
    /\ trace = <<>>

(* lines 15, 21, 22 for the line the loop is at *)
line == strip(operations[idx + 1])
parts == split(line, ":")
op == parts[1]

(* The if/elif chain of lines 25-45: the branch taken for op *)
branch(o) ==
    IF o = <<"display">> THEN "display"
    ELSE IF o = <<"filter-state">> THEN "filter-state"
    ELSE IF o = <<"filter-gt">> THEN "filter-gt"
    ELSE IF o = <<"filter-lt">> THEN "filter-lt"
    ELSE IF o = <<"population", "-total">> THEN "population-total"
    ELSE IF startswith(o, <<"population">>) THEN "population"
    ELSE IF startswith(o, <<"percent">>) THEN "percent"
    ELSE "else"

raise(class, d) == [exc |-> class, data |-> d, out |-> <<>>]

(* The bodies of the branches: p is parts (p[1] is Python's parts[0]).     *)
(* Each returns the exception raised (or "none"), the value of the local   *)
(* variable data afterwards and the lines printed.                         *)
(* Mutant: display consumes the list it prints (entries popped one by one) *)
op_display_consuming(d, p) == [exc |-> "none", data |-> <<>>, out |-> display(d)]

op_display(d, p) == [exc |-> "none", data |-> d, out |-> display(d)]

op_filter_state(d, p) ==
    IF Len(p) < 2 THEN raise("IndexError", d)
    ELSE LET r == filter_state(d, p[2])
         IN  [exc |-> "none", data |-> r.ret, out |-> r.out]

op_filter_gt(d, p) ==
    IF Len(p) < 3 THEN raise("IndexError", d)
    ELSE IF float(p[3]).exc # "none" THEN raise(float(p[3]).exc, d)
    ELSE LET r == filter_gt(d, p[2], float(p[3]).val)
         IN  IF r.exc # "none" THEN [exc |-> r.exc, data |-> d, out |-> r.out]
             ELSE [exc |-> "none", data |-> r.ret, out |-> r.out]

(* Mutant: the result of filter_lt is not assigned to data *)
op_filter_lt_discard(d, p) ==
    IF Len(p) < 3 THEN raise("IndexError", d)
    ELSE IF float(p[3]).exc # "none" THEN raise(float(p[3]).exc, d)
    ELSE LET r == filter_lt(d, p[2], float(p[3]).val)
         IN  [exc |-> r.exc, data |-> d, out |-> r.out]

op_filter_lt(d, p) ==
    IF Len(p) < 3 THEN raise("IndexError", d)
    ELSE IF float(p[3]).exc # "none" THEN raise(float(p[3]).exc, d)
    ELSE LET r == filter_lt(d, p[2], float(p[3]).val)
         IN  IF r.exc # "none" THEN [exc |-> r.exc, data |-> d, out |-> r.out]
             ELSE [exc |-> "none", data |-> r.ret, out |-> r.out]

op_population_total(d, p) ==
    [exc |-> "none", data |-> d, out |-> population_total(d).out]

op_population_field(d, p) ==
    IF Len(p) < 2 THEN raise("IndexError", d)
    ELSE LET r == population_field(d, p[2])
         IN  [exc |-> r.exc, data |-> d, out |-> r.out]

op_percent_field(d, p) ==
    IF Len(p) < 2 THEN raise("IndexError", d)
    ELSE LET r == percent_field(d, p[2])
         IN  [exc |-> r.exc, data |-> d, out |-> r.out]

op_else(d, p) == raise("ValueError", d)

(* Mutant: the message numbers lines from 0 (idx instead of idx + 1) *)
except_clause_zero_based(i, l) == << [fmt |-> MalformedFmt, n |-> i, line |-> l] >>

(* The except clause, lines 47-49: i is the loop's idx, l the stripped line *)
except_clause(i, l) == << [fmt |-> MalformedFmt, n |-> i + 1, line |-> l] >>

(* The history variables at the start of a non-blank line *)
Record ==
    /\ hist' = Append(hist, data)
    /\ mark' = Append(mark, Len(out))
    /\ trace' = Append(trace, [line |-> line, parts |-> parts, branch |-> branch(op)])

(* The try statement of lines 19-49 around a branch body that returned r:  *)
(* ValueError and IndexError are handled, any other exception leaves       *)
(* execute_operations (and main) and ends the process with status 1.       *)
Try(r) ==
    IF r.exc = "none" THEN
        /\ data' = r.data
        /\ out' = out \o r.out
        /\ idx' = idx + 1
        /\ Record
        /\ UNCHANGED <<fs, status, uncaught, operations>>
    ELSE IF r.exc \in {"ValueError", "IndexError"} THEN
        /\ out' = out \o r.out \o except_clause(idx, line)
        /\ idx' = idx + 1
        /\ Record
        /\ UNCHANGED <<fs, status, uncaught, operations, data>>
    ELSE
        /\ out' = out \o r.out
        /\ status' = "exit 1"
        /\ uncaught' = r.exc
        /\ Record
        /\ UNCHANGED <<fs, operations, idx, data>>

AtLine == status = "loop" /\ idx < Len(operations)

Open ==
    /\ status = "open"
    /\ fs.exists
    /\ operations' = fs.lines
    /\ status' = "loop"
    /\ UNCHANGED <<fs, uncaught, idx, data, out, hist, mark, trace>>

OpenFail ==
    /\ status = "open"
    /\ ~fs.exists
    /\ out' = Append(out, [fmt |-> NotFoundFmt])
    /\ status' = "exit 1"
    /\ UNCHANGED <<fs, uncaught, operations, idx, data, hist, mark, trace>>

SkipBlank ==
    /\ AtLine
    /\ line = <<>>
    /\ idx' = idx + 1
    /\ hist' = Append(hist, data)
    /\ mark' = Append(mark, Len(out))
    /\ trace' = Append(trace, [line |-> line, parts |-> <<>>, branch |-> "blank"])
    /\ UNCHANGED <<fs, status, uncaught, operations, data, out>>

Display ==
    /\ AtLine /\ line # <<>> /\ branch(op) = "display"
    /\ Try(op_display(data, parts))

FilterState ==
    /\ AtLine /\ line # <<>> /\ branch(op) = "filter-state"
    /\ Try(op_filter_state(data, parts))

FilterGt ==
    /\ AtLine /\ line # <<>> /\ branch(op) = "filter-gt"
    /\ Try(op_filter_gt(data, parts))

FilterLt ==
    /\ AtLine /\ line # <<>> /\ branch(op) = "filter-lt"
    /\ Try(op_filter_lt(data, parts))

PopulationTotal ==
    /\ AtLine /\ line # <<>> /\ branch(op) = "population-total"
    /\ Try(op_population_total(data, parts))

PopulationField ==
    /\ AtLine /\ line # <<>> /\ branch(op) = "population"
    /\ Try(op_population_field(data, parts))

PercentField ==
    /\ AtLine /\ line # <<>> /\ branch(op) = "percent"
    /\ Try(op_percent_field(data, parts))

UnknownOperation ==
    /\ AtLine /\ line # <<>> /\ branch(op) = "else"
    /\ Try(op_else(data, parts))

Return ==
    /\ status = "loop"
    /\ idx = Len(operations)
    /\ status' = "exit 0"
    /\ UNCHANGED <<fs, uncaught, operations, idx, data, out, hist, mark, trace>>

Next ==
    \/ Open
    \/ OpenFail
    \/ SkipBlank
    \/ Display
    \/ FilterState
    \/ FilterGt
    \/ FilterLt
    \/ PopulationTotal
    \/ PopulationField
    \/ PercentField
    \/ UnknownOperation
    \/ Return

Spec == Init /\ [][Next]_vars

----------------------------------------------------------------------------
(* What the history variables record about the lines of a run.            *)

(* Lines the loop has started: the completed ones and, when an exception   *)
(* has left the loop, the line that raised it.                             *)
Started == 1..Len(hist)
Completed == 1..idx

(* Line i stripped, its parts, and the branch taken for it ("blank" for a *)
(* line skipped as blank)                                                 *)
LineAt(i) == trace[i].line
PartsAt(i) == trace[i].parts
BranchAt(i) == trace[i].branch

(* The dataset line i started with, and the one the line left behind *)
Seen(i) == hist[i]
After(i) == IF i < Len(hist) THEN hist[i + 1] ELSE data

(* The lines printed while line i was processed *)
Printed(i) ==
    SubSeq(out, mark[i] + 1, IF i < Len(mark) THEN mark[i + 1] ELSE Len(out))

PrintedOne(i, fmts) == Len(Printed(i)) = 1 /\ Printed(i)[1].fmt \in fmts

(* The text of line i of the file as written, without its line terminator *)
RawText(i) ==
    LET l == operations[i]
    IN  IF l # <<>> /\ l[Len(l)] = "\n" THEN SubSeq(l, 1, Len(l) - 1) ELSE l

(* Line i is a filter-gt / filter-lt line with a field and a numeric threshold *)
IsThresholdFilter(i) ==
    /\ BranchAt(i) \in {"filter-gt", "filter-lt"}
    /\ Len(PartsAt(i)) >= 3
    /\ float(PartsAt(i)[3]).exc = "none"

FieldAt(i) == PartsAt(i)[2]
ValueAt(i) == float(PartsAt(i)[3]).val

(* Line i is a population / percent line with a field argument *)
IsAggregate(i) == BranchAt(i) \in {"population", "percent"} /\ Len(PartsAt(i)) >= 2

(* The field fails to resolve for some record of d / resolves for all *)
Unresolved(field, d) == \E k \in 1..Len(d) : get_field_value(entry(d[k]), field).exc # "none"
Resolves(field, d) == ~Unresolved(field, d)

(* The records of d, in order, that satisfy the predicate of filter line i *)
Kept(i, d) ==
    LET b == BranchAt(i)
        p == PartsAt(i)
    IN  IF b = "filter-state"
        THEN SelectSeq(d, LAMBDA e : entry(e).state = p[2])
        ELSE LET v == float(p[3]).val
             IN  IF b = "filter-gt"
                 THEN SelectSeq(d, LAMBDA e : get_field_value(entry(e), p[2]).val > v)
                 ELSE SelectSeq(d, LAMBDA e : get_field_value(entry(e), p[2]).val < v)

(* Line i is a filter line that ran without raising *)
FilterSucceeded(i) ==
    /\ i \in Completed
    /\ \/ BranchAt(i) = "filter-state" /\ Len(PartsAt(i)) >= 2
       \/ IsThresholdFilter(i) /\ Resolves(FieldAt(i), hist[i])

----------------------------------------------------------------------------
(* C1: once the operations file has been opened, no failure of a line     *)
(* escapes the per-line step: no exception leaves the loop and the process *)
(* never ends with a status other than 0.                                  *)
C1_NoFailureEscapes ==
    fs.exists => (uncaught = "" /\ status # "exit 1")

(* C2: a filter-gt or filter-lt line whose field fails to resolve for a    *)
(* record of the current dataset (unknown category, or key absent from the *)
(* record's mapping) prints exactly one "Error: Malformed line n: text"    *)
(* line and no "Filter:" line, leaves the dataset as it was, and the loop  *)
(* goes on to the next line.                                               *)
C2_UnresolvedFilterIsMalformedLine ==
    \A i \in Started :
        (IsThresholdFilter(i) /\ Unresolved(FieldAt(i), Seen(i))) =>
            /\ i \in Completed
            /\ PrintedOne(i, {MalformedFmt})
            /\ Printed(i)[1].n = i
            /\ Printed(i)[1].line = LineAt(i)
            /\ After(i) = Seen(i)

(* C3 as stated: a line with an unrecognized opcode, a missing positional   *)
(* argument or a non-numeric threshold prints exactly one line             *)
(* "Error: Malformed line n: text", n the 1-based position of the line in  *)
(* the file and text the exact original text of the line, and leaves the   *)
(* dataset as it was.                                                      *)
IsMalformed(i) ==
    \/ BranchAt(i) = "else"
    \/ BranchAt(i) \in {"filter-state", "population", "percent"} /\ Len(PartsAt(i)) < 2
    \/ /\ BranchAt(i) \in {"filter-gt", "filter-lt"}
       /\ \/ Len(PartsAt(i)) < 3
          \/ float(PartsAt(i)[3]).exc # "none"

C3_MalformedLineEchoesOriginalText ==
    \A i \in Started :
        IsMalformed(i) =>
            /\ i \in Completed
            /\ PrintedOne(i, {MalformedFmt})
            /\ Printed(i)[1].n = i
            /\ Printed(i)[1].line = RawText(i)
            /\ After(i) = Seen(i)

(* C3 amended: ... and text is the line with its leading and trailing      *)
(* whitespace removed; the rest as stated.                                 *)
C3_MalformedLineEchoesStrippedText ==
    \A i \in Started :
        IsMalformed(i) =>
            /\ i \in Completed
            /\ PrintedOne(i, {MalformedFmt})
            /\ Printed(i)[1].n = i
            /\ Printed(i)[1].line = strip(operations[i])
            /\ After(i) = Seen(i)

(* A malformed line with leading whitespace, on line 2 after a blank line, *)
(* processed with a non-empty dataset.                                     *)
C3_Witness ==
    /\ idx = 2
    /\ BranchAt(1) = "blank"
    /\ IsMalformed(2)
    /\ Head(operations[2]) \in Whitespace
    /\ Seen(2) # <<>>
    /\ PrintedOne(2, {MalformedFmt})

(* C4: a population-<field> or percent-<field> line whose field fails to   *)
(* resolve for some record prints exactly one line "Error: <message>"      *)
(* (no line-number framing, no result line) and the loop goes on to the    *)
(* next line.                                                              *)
C4_UnresolvedAggregatePrintsError ==
    \A i \in Started :
        (IsAggregate(i) /\ Unresolved(FieldAt(i), Seen(i))) =>
            /\ i \in Completed
            /\ PrintedOne(i, {ErrorFmt})

(* C5: after a filter line that ran without raising, the dataset is        *)
(* exactly the records of the previous dataset that satisfy the predicate, *)
(* in their previous order; the printed count is their number and does not *)
(* exceed the previous count; the same line applied again at once leaves   *)
(* the dataset unchanged.                                                  *)
C5_FilterKeepsExactlySatisfying ==
    \A i \in Started :
        FilterSucceeded(i) =>
            /\ After(i) = Kept(i, Seen(i))
            /\ Kept(i, After(i)) = After(i)
            /\ PrintedOne(i, {FilterStateFmt, FilterGtFmt, FilterLtFmt})
            /\ Printed(i)[1].count = Len(After(i))
            /\ Printed(i)[1].count <= Len(Seen(i))
            /\ (i + 1 \in Started /\ LineAt(i + 1) = LineAt(i)) =>
                   (i + 1 \in Completed /\ After(i + 1) = After(i))

(* A filter-gt line that dropped a record whose value equals the threshold *)
(* and kept another, applied a second time.                                *)
C5_Witness ==
    /\ idx = 2
    /\ FilterSucceeded(1)
    /\ BranchAt(1) = "filter-gt"
    /\ LineAt(2) = LineAt(1)
    /\ After(1) # <<>>
    /\ \E k \in 1..Len(Seen(1)) :
           get_field_value(entry(Seen(1)[k]), FieldAt(1)).val = ValueAt(1)

(* C6: filter-gt:field:V followed immediately by filter-lt:field:V, the    *)
(* field resolving for every record, leaves the dataset empty: the second  *)
(* line prints a count of 0 and every later line sees zero records.        *)
C6_GtThenLtIsEmpty ==
    \A i \in Started :
        ( /\ i + 1 \in Started
          /\ IsThresholdFilter(i) /\ BranchAt(i) = "filter-gt"
          /\ IsThresholdFilter(i + 1) /\ BranchAt(i + 1) = "filter-lt"
          /\ FieldAt(i + 1) = FieldAt(i)
          /\ ValueAt(i + 1) = ValueAt(i)
          /\ Resolves(FieldAt(i), Seen(i)) ) =>
            /\ i + 1 \in Completed
            /\ PrintedOne(i + 1, {FilterLtFmt})
            /\ Printed(i + 1)[1].count = 0
            /\ \A j \in Started : j > i + 1 => Seen(j) = <<>>
            /\ data = <<>>

(* The pair has run, and the filter-gt line had kept a record. *)
C6_Witness ==
    /\ idx = 2
    /\ IsThresholdFilter(1) /\ BranchAt(1) = "filter-gt"
    /\ IsThresholdFilter(2) /\ BranchAt(2) = "filter-lt"
    /\ FieldAt(2) = FieldAt(1) /\ ValueAt(2) = ValueAt(1)
    /\ Resolves(FieldAt(1), Seen(1))
    /\ Seen(2) # <<>>

(* C7: display, population-total, population-<field> and percent-<field>   *)
(* lines never change the current dataset, whether they succeed or report  *)
(* an error.                                                               *)
C7_ReportsLeaveDatasetUnchanged ==
    \A i \in Started :
        BranchAt(i) \in {"display", "population-total", "population", "percent"} =>
            After(i) = Seen(i)

(* A display line and then a percent line that reported an error,          *)
(* both on a non-empty dataset.                                            *)
C7_Witness ==
    /\ idx = 2
    /\ BranchAt(1) = "display"
    /\ BranchAt(2) = "percent"
    /\ PrintedOne(2, {ErrorFmt})
    /\ Seen(1) # <<>>

(* C8 as stated: whenever the total population of the current dataset is 0 *)
(* a percent-<field> line prints the fixed text 0.000000 as its            *)
(* percentage, for every field argument.                                   *)
C8_ZeroTotalPrintsFixedText ==
    \A i \in Completed :
        (IsAggregate(i) /\ BranchAt(i) = "percent" /\ total_population(Seen(i)) = 0) =>
            /\ PrintedOne(i, {PercentZeroFmt})
            /\ Printed(i)[1].field = FieldAt(i)

(* C8 amended: ... for every field argument that resolves for every record *)
(* of the dataset (any field when the dataset is empty).                   *)
C8_ZeroTotalResolvedPrintsFixedText ==
    \A i \in Started :
        ( /\ IsAggregate(i) /\ BranchAt(i) = "percent"
          /\ total_population(Seen(i)) = 0
          /\ Resolves(FieldAt(i), Seen(i)) ) =>
            /\ i \in Completed
            /\ PrintedOne(i, {PercentZeroFmt})
            /\ Printed(i)[1].field = FieldAt(i)

(* A percent line on a non-empty dataset whose total population is 0. *)
C8_Witness ==
    /\ idx >= 1
    /\ IsAggregate(idx) /\ BranchAt(idx) = "percent"
    /\ Seen(idx) # <<>>
    /\ total_population(Seen(idx)) = 0
    /\ Resolves(FieldAt(idx), Seen(idx))

(* C9 as stated: a filter-lt line prints the count of records whose value  *)
(* is strictly less than the threshold but does not replace the current    *)
(* dataset.                                                                *)
C9_FilterLtKeepsDataset ==
    \A i \in Started :
        (FilterSucceeded(i) /\ BranchAt(i) = "filter-lt") =>
            /\ PrintedOne(i, {FilterLtFmt})
            /\ Printed(i)[1].count =
                   Cardinality({k \in 1..Len(Seen(i)) :
                       get_field_value(entry(Seen(i)[k]), FieldAt(i)).val < ValueAt(i)})
            /\ After(i) = Seen(i)

(* C9 amended: a filter-lt line prints the count of records whose value is *)
(* strictly less than the threshold and replaces the current dataset by    *)
(* those records: the lines after it see the narrowed dataset.             *)
C9_FilterLtReplacesDataset ==
    \A i \in Started :
        (FilterSucceeded(i) /\ BranchAt(i) = "filter-lt") =>
            /\ PrintedOne(i, {FilterLtFmt})
            /\ Printed(i)[1].count =
                   Cardinality({k \in 1..Len(Seen(i)) :
                       get_field_value(entry(Seen(i)[k]), FieldAt(i)).val < ValueAt(i)})
            /\ Len(After(i)) = Printed(i)[1].count
            /\ \A e \in CountyIds :
                   (\E k \in 1..Len(After(i)) : After(i)[k] = e) <=>
                   (\E k \in 1..Len(Seen(i)) :
                       /\ Seen(i)[k] = e
                       /\ get_field_value(entry(e), FieldAt(i)).val < ValueAt(i))

(* A filter-lt line that kept one record and dropped another, with a line  *)
(* after it that saw the narrowed dataset.                                 *)
C9_Witness ==
    /\ idx = 2
    /\ FilterSucceeded(1) /\ BranchAt(1) = "filter-lt"
    /\ Seen(2) # <<>>
    /\ Len(Seen(2)) < Len(Seen(1))

(* C10: the output is the concatenation, in line order, of what each line  *)
(* printed: it starts with the first line's output, a blank line prints    *)
(* nothing, an error message is the only thing its line prints (nothing    *)
(* partial before it) and a malformed-line message carries the number of   *)
(* the line it was printed for.                                            *)
C10_OutputInLineOrder ==
    /\ Len(mark) = Len(hist)
    /\ Len(mark) > 0 => mark[1] = 0
    /\ \A i \in Started :
        /\ mark[i] <= Len(out)
        /\ i + 1 \in Started => mark[i] <= mark[i + 1]
        /\ BranchAt(i) = "blank" => Printed(i) = <<>>
        /\ \A k \in 1..Len(Printed(i)) :
               IsErrorLine(Printed(i)[k]) =>
                   /\ Len(Printed(i)) = 1
                   /\ Printed(i)[k].fmt = MalformedFmt => Printed(i)[k].n = i

(* A filter line that printed its count, then a population-<field> line    *)
(* that failed and printed its error message after it.                     *)
C10_Witness ==
    /\ idx = 2
    /\ PrintedOne(1, {FilterStateFmt, FilterGtFmt, FilterLtFmt})
    /\ BranchAt(2) = "population"
    /\ PrintedOne(2, {ErrorFmt})
    /\ out = Printed(1) \o Printed(2)

====
